---- MODULE Spec2Model ----
(***************************************************************************)
(* heatmap.py: a straight-line script.  It reads a semicolon-delimited     *)
(* table of player statistics, rescales every column to [0, 1], draws a    *)
(* first heatmap, then reorders the columns in three groups, builds one    *)
(* boolean mask per group and draws the table three times on one canvas.   *)
(*                                                                         *)
(* The state is the script's module-level names (nba, offense, defense,    *)
(* other), the figures of the plotting backend, the statement the script   *)
(* is at, and the file it reads.  Arithmetic is exact (rationals n/d):     *)
(* floating-point rounding is not modelled.                                *)
(***************************************************************************)
EXTENDS Integers, Sequences, FiniteSets, Bags, TLC

VARIABLES file, nba, offense, defense, other, figs, pc, err

vars == <<file, nba, offense, defense, other, figs, pc, err>>

(***************************************************************************)
(* Bounds of the model.                                                    *)
(***************************************************************************)
MaxRows == 2
MaxVal == 2

(***************************************************************************)
(* Cells.  A cell is a number n/d (d > 0, lowest terms), a missing value   *)
(* (NaN) or a string.                                                      *)
(***************************************************************************)
Num(n, d) == [k |-> "num", n |-> n, d |-> d, s |-> ""]
NaN == [k |-> "nan", n |-> 0, d |-> 1, s |-> ""]
Str(s) == [k |-> "str", n |-> 0, d |-> 1, s |-> s]

RECURSIVE GCD(_, _)
GCD(a, b) == IF b = 0 THEN a ELSE GCD(b, a % b)

\* n/d in lowest terms, n >= 0, d > 0.
Frac(n, d) == LET g == GCD(n, d) IN Num(n \div g, d \div g)

\* a < b for two numbers.
Less(a, b) == a.n * b.d < b.n * a.d

\* Arithmetic on cells; a missing operand gives a missing result.
Add(a, b) == IF a.k = "nan" \/ b.k = "nan" THEN NaN
             ELSE Frac(a.n * b.d + b.n * a.d, a.d * b.d)
Neg(a) == IF a.k = "nan" THEN NaN ELSE Num(0 - a.n, a.d)
Sub(a, b) == Add(a, Neg(b))
Mul(a, b) == IF a.k = "nan" \/ b.k = "nan" THEN NaN
             ELSE Frac(a.n * b.n, a.d * b.d)
\* 1 / a for a > 0.
Inv(a) == IF a.k = "nan" THEN NaN ELSE Num(a.d, a.n)

\* The elementwise == of two cells: a missing value equals nothing, itself
\* included.
CellEq(a, b) == a.k # "nan" /\ b.k # "nan" /\ a = b

IsNull(a) == a.k = "nan"

(***************************************************************************)
(* Sequences.                                                              *)
(***************************************************************************)
Range(s) == {s[i] : i \in DOMAIN s}

\* The first position of x in s (x occurs in s).
IndexOf(s, x) == CHOOSE i \in DOMAIN s : s[i] = x /\ \A j \in 1..(i - 1) : s[j] # x

Without(s, x) == SelectSeq(s, LAMBDA y : y # x)

BagOfSeq(s) == [x \in Range(s) |-> Cardinality({i \in DOMAIN s : s[i] = x})]

(***************************************************************************)
(* The literals of the script.                                             *)
(***************************************************************************)
OffenseKeys == <<"PTS", "FGM", "FGA", "FG_per", "3PM", "3PA",
                 "3P_per", "FTM", "FTA", "FT_per", "AST">>
DefenseKeysWithAssists == <<"OREB", "DREB", "REB", "STL", "BLK", "AST">>
DefenseKeys == <<"OREB", "DREB", "REB", "STL", "BLK">>
OtherKeys == <<"AGE", "GP", "W", "L", "MIN", "TOV",
               "PF", "DD2", "TD3", "plus_minus">>

XTickLabels1 == <<"Age", "Games", "Wins", "Losses", "Minutes",
                  "Points", "Field Goals Made", "Field Goals Attempted",
                  "Field Goal Percentage", "Three-Point Made",
                  "Three-Point Attempted", "Three-Point Percentage",
                  "Free Throws Made", "Free Throws Attempted",
                  "Free Throw Percentage", "Offensive Rebounds",
                  "Defensive Rebounds", "Rebounds", "Assists",
                  "Turnovers", "Steals", "Blocks", "Personal Fouls",
                  "Double doubles", "Triple doubles", "Plus Minus">>

XTickLabels2Swapped == <<"Points", "Field Goals Made", "Field Goals Attempted",
                  "Field Goal Percentage", "Three-Point Made",
                  "Three-Point Attempted", "Three-Point Percentage",
                  "Free Throws Made", "Free Throws Attempted",
                  "Free Throw Percentage", "Assists",
                  "Offensive Rebounds", "Defensive Rebounds",
                  "Rebounds", "Blocks", "Steals", "Age", "Games",
                  "Wins", "Losses", "Minutes", "Turnovers",
                  "Personal Fouls", "Double doubles",
                  "Triple doubles", "Plus Minus">>
XTickLabels2 == <<"Points", "Field Goals Made", "Field Goals Attempted",
                  "Field Goal Percentage", "Three-Point Made",
                  "Three-Point Attempted", "Three-Point Percentage",
                  "Free Throws Made", "Free Throws Attempted",
                  "Free Throw Percentage", "Assists",
                  "Offensive Rebounds", "Defensive Rebounds",
                  "Rebounds", "Steals", "Blocks", "Age", "Games",
                  "Wins", "Losses", "Minutes", "Turnovers",
                  "Personal Fouls", "Double doubles",
                  "Triple doubles", "Plus Minus">>

OffenseColor == "#7495b9"
DefenseColor == "#656684"
OtherColor == "#633a45"

PlotTitle == "NBA's top 50 points leaders / Season 2015-16"

(***************************************************************************)
(* The file datasets/nba_top50_2016.txt.  Its header is the identity       *)
(* column, the team column and the 26 statistics in the order the first    *)
(* label vector names them.                                                *)
(***************************************************************************)
SchemaHeader == <<"PLAYER", "TEAM",
                  "AGE", "GP", "W", "L", "MIN", "PTS", "FGM", "FGA", "FG_per",
                  "3PM", "3PA", "3P_per", "FTM", "FTA", "FT_per", "OREB",
                  "DREB", "REB", "AST", "TOV", "STL", "BLK", "PF", "DD2",
                  "TD3", "plus_minus">>

PlayerNames == <<"Curry", "Harden", "Durant", "Cousins">>

\* A statistic outside the schema, and the places a file may hold it.
ExtraColumn == "EFF"
InsertAt(s, i, x) == SubSeq(s, 1, i - 1) \o <<x>> \o SubSeq(s, i, Len(s))
WiderHeaders == {InsertAt(SchemaHeader, i, ExtraColumn) : i \in {3, Len(SchemaHeader) + 1}}

\* The cells a file may leave empty.
NoCell == <<0, "">>
EmptyCells == {<<1, "PTS">>, <<1, "BLK">>}

(***************************************************************************)
(* Frames: a frame has an index (row labels, with a name), an ordered      *)
(* list of column names and one cell per (row position, column name).      *)
(***************************************************************************)
Frame(index, iname, columns, data) ==
    [index |-> index, iname |-> iname, columns |-> columns, data |-> data]

EmptyFrame == Frame(<<>>, "", <<>>, <<>>)

NRows(f) == Len(f.index)
NCols(f) == Len(f.columns)

\* A file of n rows: row r holds player order[r], and in the i-th statistic
\* column the number (profile[r] * i + r) mod (MaxVal + 1), or nothing at
\* the cell named by empty.
FileOf(header, order, profile, empty) ==
    [header |-> header,
     rows |-> [r \in DOMAIN order |->
        [c \in Range(header) |->
            IF c = "PLAYER" THEN Str(PlayerNames[order[r]])
            ELSE IF c = "TEAM" THEN Str("TEAM")
            ELSE IF <<r, c>> = empty THEN NaN
            ELSE Num((profile[r] * (IndexOf(header, c) - 2) + r) % (MaxVal + 1), 1)]]]

SchemaFiles ==
    UNION {{FileOf(SchemaHeader, order, profile, NoCell) :
                order \in Permutations(1..n), profile \in [1..n -> 0..MaxVal]} :
           n \in 1..MaxRows}

AnyFiles ==
    UNION {{FileOf(header, order, profile, empty) :
                header \in {SchemaHeader} \cup WiderHeaders,
                order \in Permutations(1..n),
                profile \in [1..n -> 0..MaxVal],
                empty \in {NoCell} \cup {e \in EmptyCells : e[1] <= n}} :
           n \in 1..MaxRows}

(***************************************************************************)
(* pd.read_csv, set_index, drop.                                           *)
(***************************************************************************)
\* read_csv: one column per header field, rows in file order, a default
\* index 0, 1, ...
ReadCsv(f) ==
    Frame([r \in DOMAIN f.rows |-> Num(r - 1, 1)], "", f.header, f.rows)

SetIndexReversed(f, key) ==
    Frame([r \in DOMAIN f.index |-> f.data[NRows(f) + 1 - r][key]], key,
          Without(f.columns, key),
          [r \in DOMAIN f.data |-> [c \in Range(Without(f.columns, key)) |-> f.data[r][c]]])
\* set_index(key): the column key becomes the index, in row order.
SetIndex(f, key) ==
    Frame([r \in DOMAIN f.index |-> f.data[r][key]], key,
          Without(f.columns, key),
          [r \in DOMAIN f.data |-> [c \in Range(Without(f.columns, key)) |-> f.data[r][c]]])

\* drop(key, axis=1).
Drop(f, key) ==
    Frame(f.index, f.iname, Without(f.columns, key),
          [r \in DOMAIN f.data |-> [c \in Range(Without(f.columns, key)) |-> f.data[r][c]]])

\* The table the script holds after line 12.
Loaded(f) == Drop(SetIndex(ReadCsv(f), "PLAYER"), "TEAM")

(***************************************************************************)
(* MinMaxScaler().fit_transform and pd.DataFrame(array, index, columns).   *)
(* fit computes, per column, data_min and data_max over the values that    *)
(* are present, data_range = data_max - data_min, scale = 1 / data_range   *)
(* with a zero range replaced by 1, and min = 0 - data_min * scale;        *)
(* transform returns X * scale + min as a positional array.                *)
(***************************************************************************)
Present(f, c) == {f.data[r][c] : r \in {q \in DOMAIN f.data : ~IsNull(f.data[q][c])}}

TableMin(f, c) ==
    LET S == UNION {Present(f, x) : x \in Range(f.columns)}
    IN  IF S = {} THEN NaN ELSE CHOOSE x \in S : \A y \in S : ~Less(y, x)
DataMin(f, c) ==
    LET S == Present(f, c)
    IN  IF S = {} THEN NaN ELSE CHOOSE x \in S : \A y \in S : ~Less(y, x)

DataMax(f, c) ==
    LET S == Present(f, c)
    IN  IF S = {} THEN NaN ELSE CHOOSE x \in S : \A y \in S : ~Less(x, y)

DivideByRange(range) == IF range = Num(0, 1) THEN NaN ELSE range
HandleZerosInScale(range) == IF range = Num(0, 1) THEN Num(1, 1) ELSE range

FitTransform(f) ==
    [r \in DOMAIN f.data |-> [j \in DOMAIN f.columns |->
        LET c == f.columns[j]
            scale == Inv(HandleZerosInScale(Sub(DataMax(f, c), DataMin(f, c))))
            min == Neg(Mul(DataMin(f, c), scale))
        IN  Add(Mul(f.data[r][c], scale), min)]]

DataFrame(array, index, iname, columns) ==
    Frame(index, iname, columns,
          [r \in DOMAIN array |-> [c \in Range(columns) |-> array[r][IndexOf(columns, c)]]])

\* The table the script holds after line 16.
Normalized(f) == DataFrame(FitTransform(f), f.index, f.iname, f.columns)

(***************************************************************************)
(* The names offense, defense and other: unbound, a list of keys, or a     *)
(* frame of booleans.                                                      *)
(***************************************************************************)
Unbound == [kind |-> "unbound", keys |-> <<>>, frame |-> EmptyFrame]
ListOf(keys) == [kind |-> "list", keys |-> keys, frame |-> EmptyFrame]
FrameOf(frame) == [kind |-> "frame", keys |-> <<>>, frame |-> frame]

\* col not in b: membership in a list, or among the column names of a frame.
NotIn(col, b) ==
    IF b.kind = "list" THEN col \notin Range(b.keys)
    ELSE col \notin Range(b.frame.columns)

\* nba[keys]: the columns named by keys, in that order.
GetItemKeepingRest(f, keys) ==
    Frame(f.index, f.iname,
          keys \o SelectSeq(f.columns, LAMBDA c : c \notin Range(keys)), f.data)
GetItemByPosition(f, keys) ==
    Frame(f.index, f.iname, keys,
          [r \in DOMAIN f.data |-> [c \in Range(keys) |->
              f.data[r][f.columns[IndexOf(keys, c)]]]])
GetItem(f, keys) ==
    Frame(f.index, f.iname, keys,
          [r \in DOMAIN f.data |-> [c \in Range(keys) |-> f.data[r][c]]])

\* f == g, elementwise.
EqFrame(f, g) ==
    Frame(f.index, f.iname, f.columns,
          [r \in DOMAIN f.data |-> [c \in Range(f.columns) |->
              CellEq(f.data[r][c], g.data[r][c])]])

\* b & list: the list is laid along the columns, one entry per column.
AndList(b, list) ==
    Frame(b.index, b.iname, b.columns,
          [r \in DOMAIN b.data |-> [c \in Range(b.columns) |->
              b.data[r][c] /\ list[IndexOf(b.columns, c)]]])

\* (nba == nba) & [col not in group for col in nba.columns]
MaskOfMembers(f, group) ==
    AndList(EqFrame(f, f), [j \in DOMAIN f.columns |-> ~NotIn(f.columns[j], group)])
MaskOf(f, group) ==
    AndList(EqFrame(f, f), [j \in DOMAIN f.columns |-> NotIn(f.columns[j], group)])

\* mask=None.
NoMask(f) ==
    Frame(f.index, f.iname, f.columns,
          [r \in DOMAIN f.data |-> [c \in Range(f.columns) |-> FALSE]])

(***************************************************************************)
(* Figures.  A figure holds, per grid position, the stack of cells drawn   *)
(* there (last on top), the column each x tick stands on, the tick labels, *)
(* the axis titles and the title.                                          *)
(***************************************************************************)
NewFigure ==
    [cells |-> <<>>, xticks |-> <<>>, xticklabels |-> <<>>, yticklabels |-> <<>>,
     rotation |-> 0, ha |-> "center", xlabel |-> "", ylabel |-> "",
     title |-> "", loc |-> "center"]

Under(fig, r, j) ==
    IF r \in DOMAIN fig.cells THEN
        IF j \in DOMAIN fig.cells[r] THEN fig.cells[r][j] ELSE <<>>
    ELSE <<>>

\* sns.heatmap(f, mask=mask, cmap=light_palette(color)) on the figure: one
\* cell per (row, column) position, left undrawn where the mask is true or
\* the value is missing; ticks and labels from the frame.
HeatmapOverwriting(fig, f, mask, color) ==
    [fig EXCEPT
        !.cells = [r \in DOMAIN f.data |-> [j \in DOMAIN f.columns |->
            Under(fig, r, j) \o <<[cmap |-> color, value |-> f.data[r][f.columns[j]]]>>]],
        !.xticks = f.columns,
        !.xticklabels = f.columns,
        !.yticklabels = [r \in DOMAIN f.index |-> f.index[r].s],
        !.xlabel = "",
        !.ylabel = f.iname]
Heatmap(fig, f, mask, color) ==
    [fig EXCEPT
        !.cells = [r \in DOMAIN f.data |-> [j \in DOMAIN f.columns |->
            Under(fig, r, j) \o
            (IF mask.data[r][f.columns[j]] \/ IsNull(f.data[r][f.columns[j]])
             THEN <<>>
             ELSE <<[cmap |-> color, value |-> f.data[r][f.columns[j]]]>>)]],
        !.xticks = f.columns,
        !.xticklabels = f.columns,
        !.yticklabels = [r \in DOMAIN f.index |-> f.index[r].s],
        !.xlabel = "",
        !.ylabel = f.iname]

\* set_xticklabels(labels, rotation=30, ha="right"): label j goes to tick j;
\* a tick past the end of the labels is left blank.
SetXTickLabels(fig, labels) ==
    [fig EXCEPT
        !.xticklabels = [j \in DOMAIN fig.xticks |->
                            IF j <= Len(labels) THEN labels[j] ELSE ""],
        !.rotation = 30,
        !.ha = "right"]

\* plt.xlabel(""); plt.ylabel(""); plt.title(..., loc="left")
SetTitles(fig) ==
    [fig EXCEPT !.xlabel = "", !.ylabel = "", !.title = PlotTitle, !.loc = "left"]

Current == figs[Len(figs)]
OnCurrent(fig) == [figs EXCEPT ![Len(figs)] = fig]

(***************************************************************************)
(* The statements of the script, in order.                                 *)
(***************************************************************************)
Names == <<offense, defense, other>>

\* line 9
ReadFile ==
    /\ pc = "read_csv"
    /\ nba' = ReadCsv(file)
    /\ pc' = "set_index"
    /\ UNCHANGED <<file, Names, figs, err>>

\* line 12
IndexAndDrop ==
    /\ pc = "set_index"
    /\ nba' = Drop(SetIndex(nba, "PLAYER"), "TEAM")
    /\ pc' = "rescale"
    /\ UNCHANGED <<file, Names, figs, err>>

\* lines 15-16
Rescale ==
    /\ pc = "rescale"
    /\ nba' = Normalized(nba)
    /\ pc' = "figure1"
    /\ UNCHANGED <<file, Names, figs, err>>

\* lines 15-16, a scaler that accepts no missing value
RescaleRejectsMissing ==
    /\ pc = "rescale"
    /\ \E r \in DOMAIN nba.data : \E c \in Range(nba.columns) : IsNull(nba.data[r][c])
    /\ pc' = "failed"
    /\ err' = "ValueError: Input contains NaN"
    /\ UNCHANGED <<file, nba, Names, figs>>

\* line 19
Figure1 ==
    /\ pc = "figure1"
    /\ figs' = Append(figs, NewFigure)
    /\ pc' = "heatmap1"
    /\ UNCHANGED <<file, nba, Names, err>>

\* lines 21-22
Heatmap1 ==
    /\ pc = "heatmap1"
    /\ figs' = OnCurrent(Heatmap(Current, nba, NoMask(nba), OffenseColor))
    /\ pc' = "xticklabels1"
    /\ UNCHANGED <<file, nba, Names, err>>

\* lines 25-34
Labels1 ==
    /\ pc = "xticklabels1"
    /\ figs' = OnCurrent(SetXTickLabels(Current, XTickLabels1))
    /\ pc' = "titles1"
    /\ UNCHANGED <<file, nba, Names, err>>

\* lines 25-34, a backend that checks the number of labels against the ticks
Labels1Mismatch ==
    /\ pc = "xticklabels1"
    /\ Len(XTickLabels1) # Len(Current.xticks)
    /\ pc' = "failed"
    /\ err' = "ValueError: the number of labels does not match the number of ticks"
    /\ UNCHANGED <<file, nba, Names, figs>>

\* lines 37-40
Titles1 ==
    /\ pc = "titles1"
    /\ figs' = OnCurrent(SetTitles(Current))
    /\ pc' = "offense"
    /\ UNCHANGED <<file, nba, Names, err>>

\* lines 50-51
BindOffense ==
    /\ pc = "offense"
    /\ offense' = ListOf(OffenseKeys)
    /\ pc' = "defense"
    /\ UNCHANGED <<file, nba, defense, other, figs, err>>

\* line 52
BindDefense ==
    /\ pc = "defense"
    /\ defense' = ListOf(DefenseKeys)
    /\ pc' = "other"
    /\ UNCHANGED <<file, nba, offense, other, figs, err>>

\* lines 53-54
BindOther ==
    /\ pc = "other"
    /\ other' = ListOf(OtherKeys)
    /\ pc' = "reorder"
    /\ UNCHANGED <<file, nba, offense, defense, figs, err>>

\* line 57
Reorder ==
    /\ pc = "reorder"
    /\ offense.kind = "list" /\ defense.kind = "list" /\ other.kind = "list"
    /\ Range(offense.keys \o defense.keys \o other.keys) \subseteq Range(nba.columns)
    /\ nba' = GetItem(nba, offense.keys \o defense.keys \o other.keys)
    /\ pc' = "mask_offense"
    /\ UNCHANGED <<file, Names, figs, err>>

\* line 61 reading offense, which line 60 has rebound, in place of defense
MaskDefenseFromOffense ==
    /\ pc = "mask_defense"
    /\ defense' = FrameOf(MaskOf(nba, offense))
    /\ pc' = "mask_other"
    /\ UNCHANGED <<file, nba, offense, other, figs, err>>

\* line 60
MaskOffense ==
    /\ pc = "mask_offense"
    /\ offense' = FrameOf(MaskOf(nba, offense))
    /\ pc' = "mask_defense"
    /\ UNCHANGED <<file, nba, defense, other, figs, err>>

\* line 61
MaskDefense ==
    /\ pc = "mask_defense"
    /\ defense' = FrameOf(MaskOf(nba, defense))
    /\ pc' = "mask_other"
    /\ UNCHANGED <<file, nba, offense, other, figs, err>>

\* line 62
MaskOther ==
    /\ pc = "mask_other"
    /\ other' = FrameOf(MaskOf(nba, other))
    /\ pc' = "figure2"
    /\ UNCHANGED <<file, nba, offense, defense, figs, err>>

\* line 65
Figure2 ==
    /\ pc = "figure2"
    /\ figs' = Append(figs, NewFigure)
    /\ pc' = "pass_offense"
    /\ UNCHANGED <<file, nba, Names, err>>

\* lines 67-68
PassOffense ==
    /\ pc = "pass_offense"
    /\ figs' = OnCurrent(Heatmap(Current, nba, offense.frame, OffenseColor))
    /\ pc' = "pass_defense"
    /\ UNCHANGED <<file, nba, Names, err>>

\* lines 69-70
PassDefense ==
    /\ pc = "pass_defense"
    /\ figs' = OnCurrent(Heatmap(Current, nba, defense.frame, DefenseColor))
    /\ pc' = "pass_other"
    /\ UNCHANGED <<file, nba, Names, err>>

\* lines 71-72
PassOther ==
    /\ pc = "pass_other"
    /\ figs' = OnCurrent(Heatmap(Current, nba, other.frame, OtherColor))
    /\ pc' = "xticklabels2"
    /\ UNCHANGED <<file, nba, Names, err>>

\* lines 75-85
Labels2 ==
    /\ pc = "xticklabels2"
    /\ figs' = OnCurrent(SetXTickLabels(Current, XTickLabels2))
    /\ pc' = "titles2"
    /\ UNCHANGED <<file, nba, Names, err>>

\* lines 88-91
Titles2 ==
    /\ pc = "titles2"
    /\ figs' = OnCurrent(SetTitles(Current))
    /\ pc' = "done"
    /\ UNCHANGED <<file, nba, Names, err>>

Start(files) ==
    /\ file \in files
    /\ nba = EmptyFrame
    /\ offense = Unbound /\ defense = Unbound /\ other = Unbound
    /\ figs = <<>>
    /\ pc = "read_csv"
    /\ err = "none"

\* The script on a file of the 26-column schema with every value present.
Init == Start(SchemaFiles)

Next ==
    \/ ReadFile \/ IndexAndDrop \/ Rescale
    \/ Figure1 \/ Heatmap1 \/ Labels1 \/ Titles1
    \/ BindOffense \/ BindDefense \/ BindOther \/ Reorder
    \/ MaskOffense \/ MaskDefense \/ MaskOther
    \/ Figure2 \/ PassOffense \/ PassDefense \/ PassOther
    \/ Labels2 \/ Titles2

Spec == Init /\ [][Next]_vars

\* The script on any file: a column outside the schema and an empty cell may
\* occur.  What the libraries do with them depends on their version: the
\* scaler either keeps a missing value (Rescale) or raises on it, and
\* set_xticklabels either labels the ticks it has labels for (Labels1) or
\* raises when the counts differ.  Both outcomes are behaviours.
InitAnyFile == Start(AnyFiles)

NextAnyFile == Next \/ RescaleRejectsMissing \/ Labels1Mismatch

SpecAnyFile == InitAnyFile /\ [][NextAnyFile]_vars

(***************************************************************************)
(* Vocabulary of the properties.                                           *)
(***************************************************************************)
Statements ==
    <<"read_csv", "set_index", "rescale", "figure1", "heatmap1", "xticklabels1",
      "titles1", "offense", "defense", "other", "reorder", "mask_offense",
      "mask_defense", "mask_other", "figure2", "pass_offense", "pass_defense",
      "pass_other", "xticklabels2", "titles2", "done">>

\* The statement named l has run.
Past(l) == pc \in Range(Statements) /\ IndexOf(Statements, pc) > IndexOf(Statements, l)

GroupedOrder == OffenseKeys \o DefenseKeys \o OtherKeys

\* The table as loaded (after line 12) from the file being read.
Table0 == Loaded(file)

Zero == Num(0, 1)
One == Num(1, 1)

\* v is the least (greatest) value of column c of f.
IsLeast(v, f, c) ==
    /\ \E r \in DOMAIN f.data : f.data[r][c] = v
    /\ \A r \in DOMAIN f.data : ~Less(f.data[r][c], v)
IsGreatest(v, f, c) ==
    /\ \E r \in DOMAIN f.data : f.data[r][c] = v
    /\ \A r \in DOMAIN f.data : ~Less(v, f.data[r][c])

ZeroRange(f, c) == \A r, q \in DOMAIN f.data : f.data[r][c] = f.data[q][c]

Cells(f) == {<<r, c>> : r \in DOMAIN f.data, c \in Range(f.columns)}

(***************************************************************************)
(* C1.  With the script's three key lists and a file of the 26-column      *)
(* schema, once the three masks are built every cell of the reordered      *)
(* table is hidden (true) in exactly two masks and visible (false) in      *)
(* exactly one; the three key lists are pairwise disjoint and together     *)
(* are exactly the columns of the reordered table.                         *)
(***************************************************************************)
C1_HiddenInExactlyTwo ==
    Past("mask_other") =>
        /\ \A rc \in Cells(nba) :
              Cardinality({m \in 1..3 : Names[m].frame.data[rc[1]][rc[2]]}) = 2
        /\ \A j \in DOMAIN nba.columns :
              Cardinality({g \in {OffenseKeys, DefenseKeys, OtherKeys} :
                              nba.columns[j] \in Range(g)}) = 1
        /\ \A i, j \in DOMAIN nba.columns : nba.columns[i] = nba.columns[j] => i = j
        /\ Range(nba.columns) = Range(GroupedOrder)
        /\ Range(nba.columns) = Range(Table0.columns)

C1_Witness ==
    /\ Past("mask_other")
    /\ NCols(nba) = Len(SchemaHeader) - 2
    /\ NRows(nba) = MaxRows
    /\ offense.frame.data[1]["BLK"] /\ other.frame.data[1]["BLK"]
    /\ ~defense.frame.data[1]["BLK"]

(***************************************************************************)
(* C2.  After normalization every column that was not constant has least   *)
(* value 0 and greatest value 1, and every cell is                         *)
(* (value - column min) / (column max - column min) for the minimum and    *)
(* maximum of its own column in the loaded table.                          *)
(***************************************************************************)
C2_OwnRangePerColumn ==
    Past("rescale") =>
        \A c \in Range(nba.columns) :
            ~ZeroRange(Table0, c) =>
                /\ IsLeast(Zero, nba, c)
                /\ IsGreatest(One, nba, c)
                /\ \A lo, hi \in {Table0.data[r][c] : r \in DOMAIN Table0.data} :
                      IsLeast(lo, Table0, c) /\ IsGreatest(hi, Table0, c) =>
                          \A r \in DOMAIN nba.data :
                              nba.data[r][c]
                                  = Mul(Sub(Table0.data[r][c], lo), Inv(Sub(hi, lo)))

C2_Witness ==
    /\ pc = "figure1"
    /\ \E c, e \in Range(nba.columns) :
          /\ ~ZeroRange(Table0, c) /\ ~ZeroRange(Table0, e)
          /\ IsLeast(Zero, Table0, c) /\ IsGreatest(One, Table0, c)
          /\ IsLeast(One, Table0, e) /\ IsGreatest(Num(2, 1), Table0, e)
          /\ IsLeast(Zero, nba, e) /\ IsGreatest(One, nba, e)

(***************************************************************************)
(* C3 as stated: when a column of the loaded table has zero range,         *)
(* normalization fails, so no normalized table is produced and no figure   *)
(* is drawn: the script never gets past the rescaling statement.           *)
(***************************************************************************)
C3_ZeroRangeFails ==
    (\E c \in Range(Table0.columns) : ZeroRange(Table0, c)) =>
        /\ ~Past("rescale")
        /\ figs = <<>>

(***************************************************************************)
(* C3 as amended: a column of zero range does not make normalization       *)
(* fail.  The scaler divides by 1 in place of the zero range, every value  *)
(* of the column becomes 0, the normalized table is produced with no       *)
(* failure, and the script ends with both figures drawn.                   *)
(***************************************************************************)
C3_ZeroRangeBecomesZero ==
    /\ Past("rescale") =>
          \A c \in Range(Table0.columns) :
              ZeroRange(Table0, c) =>
                  \A r \in DOMAIN nba.data : nba.data[r][c] = Zero
    /\ pc # "failed" /\ err = "none"
    /\ pc = "done" =>
          /\ Len(figs) = 2
          /\ \A i \in 1..2 : \A r \in DOMAIN nba.data : \A j \in DOMAIN nba.columns :
                Len(figs[i].cells[r][j]) = 1

C3_Witness ==
    /\ pc = "done"
    /\ Len(figs) = 2
    /\ NRows(nba) = MaxRows
    /\ \E c, e \in Range(nba.columns) :
          /\ ZeroRange(Table0, c) /\ ~ZeroRange(Table0, e)
          /\ \A r \in DOMAIN nba.data : nba.data[r][c] = Zero

(***************************************************************************)
(* C4 as stated: the mask of a group is true at a cell exactly when the    *)
(* cell's column key is not in the group's key list, whatever the cell     *)
(* holds.                                                                  *)
(***************************************************************************)
MaskIs(name, keys, built, P(_, _)) ==
    Past(built) =>
        /\ name.kind = "frame"
        /\ name.frame.columns = nba.columns
        /\ \A rc \in Cells(nba) : name.frame.data[rc[1]][rc[2]] = P(rc, keys)

NotInGroup(rc, keys) == rc[2] \notin Range(keys)

C4_MaskIgnoresValue ==
    /\ MaskIs(offense, OffenseKeys, "mask_offense", NotInGroup)
    /\ MaskIs(defense, DefenseKeys, "mask_defense", NotInGroup)
    /\ MaskIs(other, OtherKeys, "mask_other", NotInGroup)

(***************************************************************************)
(* C4 as amended: at every cell that holds a value, the mask of a group    *)
(* is true exactly when the cell's column key is not in the group's key    *)
(* list; at a cell whose value is missing the self-comparison is false     *)
(* and the mask of every group is false.  Mask content depends on the      *)
(* column order, the three key lists and which cells are missing.          *)
(***************************************************************************)
PresentAndNotInGroup(rc, keys) ==
    ~IsNull(nba.data[rc[1]][rc[2]]) /\ rc[2] \notin Range(keys)

C4_MaskOfPresentCells ==
    /\ MaskIs(offense, OffenseKeys, "mask_offense", PresentAndNotInGroup)
    /\ MaskIs(defense, DefenseKeys, "mask_defense", PresentAndNotInGroup)
    /\ MaskIs(other, OtherKeys, "mask_other", PresentAndNotInGroup)

C4_Witness ==
    /\ Past("mask_other")
    /\ NRows(nba) = MaxRows
    /\ IsNull(nba.data[1]["PTS"])
    /\ ~offense.frame.data[1]["PTS"] /\ ~defense.frame.data[1]["PTS"]
    /\ ~other.frame.data[1]["PTS"]
    /\ defense.frame.data[2]["PTS"] /\ other.frame.data[2]["PTS"]
    /\ ~offense.frame.data[2]["PTS"]

(***************************************************************************)
(* C5.  The reorder statement permutes the columns and changes no value:   *)
(* the multiset of column names is the same before and after, the new      *)
(* column order is offense keys, then defense keys, then other keys, and   *)
(* every (row, column name) holds the value it held before.                *)
(***************************************************************************)
C5_ReorderIsPermutation ==
    [][pc = "reorder" =>
          /\ BagOfSeq(nba'.columns) = BagOfSeq(nba.columns)
          /\ nba'.columns = GroupedOrder
          /\ nba'.index = nba.index
          /\ DOMAIN nba'.data = DOMAIN nba.data
          /\ \A rc \in Cells(nba) : nba'.data[rc[1]][rc[2]] = nba.data[rc[1]][rc[2]]]_vars

C5_Witness ==
    /\ pc = "mask_offense"
    /\ nba.columns = GroupedOrder
    /\ nba.columns # Table0.columns
    /\ NRows(nba) = MaxRows
    /\ nba.data[1]["PTS"] # nba.data[1]["AGE"]

(***************************************************************************)
(* C6.  Each label vector has one label per column of the table drawn and  *)
(* is laid on the ticks position by position.  The first figure's ticks    *)
(* stand on the columns in file-header order; the second figure's ticks    *)
(* stand on the columns in offense, defense, other order, and every        *)
(* column carries in the second figure the label it carried in the first:  *)
(* the second vector is the first one permuted as the columns were.        *)
(***************************************************************************)
C6_LabelsFollowColumns ==
    /\ Past("xticklabels1") =>
          /\ figs[1].xticks = Table0.columns
          /\ figs[1].xticklabels = XTickLabels1
          /\ Len(figs[1].xticklabels) = NCols(Table0)
    /\ Past("xticklabels2") =>
          /\ figs[2].xticks = GroupedOrder
          /\ figs[2].xticks = nba.columns
          /\ figs[2].xticklabels = XTickLabels2
          /\ Len(figs[2].xticklabels) = NCols(nba)
          /\ BagOfSeq(figs[2].xticklabels) = BagOfSeq(figs[1].xticklabels)
          /\ \A j \in DOMAIN figs[2].xticks :
                figs[2].xticklabels[j]
                    = figs[1].xticklabels[IndexOf(figs[1].xticks, figs[2].xticks[j])]

C6_Witness ==
    /\ pc = "done"
    /\ figs[1].xticklabels[1] = "Age" /\ figs[1].xticks[1] = "AGE"
    /\ figs[2].xticklabels[1] = "Points" /\ figs[2].xticks[1] = "PTS"
    /\ figs[2].xticklabels[15] = "Steals" /\ figs[2].xticks[15] = "STL"
    /\ figs[1].xticklabels[21] = "Steals" /\ figs[1].xticks[21] = "STL"

(***************************************************************************)
(* C7.  From the loaded table on, the row identifiers of the table are     *)
(* the player names of the file in file order; the same holds of every     *)
(* mask and of the rows of both figures.                                   *)
(***************************************************************************)
PlayersOf(f) == [r \in DOMAIN f.rows |-> f.rows[r]["PLAYER"]]

C7_RowsPreserved ==
    /\ Past("set_index") => nba.index = PlayersOf(file) /\ DOMAIN nba.data = DOMAIN file.rows
    /\ \A m \in 1..3 :
          Names[m].kind = "frame" =>
              /\ Names[m].frame.index = PlayersOf(file)
              /\ DOMAIN Names[m].frame.data = DOMAIN file.rows
    /\ \A i \in DOMAIN figs :
          figs[i].cells # <<>> =>
              /\ figs[i].yticklabels = [r \in DOMAIN file.rows |-> file.rows[r]["PLAYER"].s]
              /\ DOMAIN figs[i].cells = DOMAIN file.rows

C7_Witness ==
    /\ pc = "done"
    /\ NRows(nba) = MaxRows
    /\ file.rows[1]["PLAYER"] = Str("Harden")
    /\ nba.index[1] = Str("Harden") /\ nba.index[2] = Str("Curry")
    /\ other.frame.index = nba.index

(***************************************************************************)
(* C8 as stated: a column of the normalized table whose key is in none of  *)
(* the three key lists is still a column of the table after the reorder,   *)
(* every mask hides it, and the script does not fail.                      *)
(***************************************************************************)
Ungrouped == {c \in Range(Table0.columns) : c \notin Range(GroupedOrder)}

PaletteOf(c) ==
    IF c \in Range(OffenseKeys) THEN OffenseColor
    ELSE IF c \in Range(DefenseKeys) THEN DefenseColor
    ELSE OtherColor

DrawnBy(passes) ==
    \A r \in DOMAIN nba.data : \A j \in DOMAIN nba.columns :
        figs[2].cells[r][j] =
            IF PaletteOf(nba.columns[j]) \in passes
            THEN <<[cmap |-> PaletteOf(nba.columns[j]),
                    value |-> nba.data[r][nba.columns[j]]]>>
            ELSE <<>>

C9_EachCellDrawnOnceByItsGroup ==
    /\ pc = "pass_defense" => DrawnBy({OffenseColor})
    /\ pc = "pass_other" => DrawnBy({OffenseColor, DefenseColor})
    /\ Past("pass_other") => DrawnBy({OffenseColor, DefenseColor, OtherColor})

C9_Witness ==
    /\ pc = "done"
    /\ NRows(nba) = MaxRows
    /\ figs[2].cells[1][1][1].cmap = OffenseColor
    /\ figs[2].cells[1][12][1].cmap = DefenseColor
    /\ figs[2].cells[2][26][1].cmap = OtherColor
    /\ figs[2].cells[1][1][1].value # figs[2].cells[2][1][1].value

(***************************************************************************)
(* C10.  The reorder statement runs while offense, defense and other all   *)
(* hold their key lists; each mask statement runs while its own name       *)
(* still holds its key list and the table is already reordered; so each    *)
(* mask is the one its group's original key list gives on the reordered    *)
(* table.                                                                  *)
(***************************************************************************)
C10_MasksReadKeyLists ==
    /\ pc \in {"reorder", "mask_offense"} => offense = ListOf(OffenseKeys)
    /\ pc \in {"reorder", "mask_offense", "mask_defense"} => defense = ListOf(DefenseKeys)
    /\ pc \in {"reorder", "mask_offense", "mask_defense", "mask_other"} =>
          other = ListOf(OtherKeys)
    /\ pc \in {"mask_offense", "mask_defense", "mask_other"} => nba.columns = GroupedOrder
    /\ MaskIs(offense, OffenseKeys, "mask_offense", NotInGroup)
    /\ MaskIs(defense, DefenseKeys, "mask_defense", NotInGroup)
    /\ MaskIs(other, OtherKeys, "mask_other", NotInGroup)

C10_Witness ==
    /\ pc = "mask_other"
    /\ offense.kind = "frame" /\ defense.kind = "frame" /\ other.kind = "list"
    /\ defense.frame.data[1]["PTS"] /\ ~defense.frame.data[1]["REB"]

====
